---- MODULE Spec2Model ----
(***************************************************************************)
(* Verification development for the ZKredit verifier / registry logic.     *)
(*                                                                         *)
(*   Spec        Verifier.sol: verifyProof and key/operator administration *)
(*   SpecBatch   Verifier.sol: verifyBatchProofs and key administration    *)
(*   SpecEmergency   Verifier.sol: emergency deactivation by the owner     *)
(*   SpecCredit  ZKCreditVerifier.sol                                      *)
(*   SpecService ZKProofService.ts: concurrent verifyProof calls           *)
(*   SpecUpdate  ZKCreditVerifier.sol: updateCreditAssessment and its log  *)
(*   SpecProve   ZKProofService.ts: generateRangeProof, then verifyZKProof *)
(*   SpecCollateralRequest   ZKProofService.ts: collateral generateProof   *)
(*   SpecLogger  HCSAuditLogger: log, timer and size-triggered flushes     *)
(*   SpecIncome, SpecMerkle, SpecCreditHistory, SpecCollateral             *)
(*               the circom templates                                      *)
(*                                                                         *)
(* A contract call is one atomic action (an EVM transaction): a failed     *)
(* require reverts every write of the call and leaves the contract state   *)
(* as it was.  keccak256 over the identifier preimages is modelled as      *)
(* injective: an identifier is the tuple of its preimage.  gasleft()       *)
(* values are not modelled.                                                *)
(***************************************************************************)
EXTENDS Integers, Sequences, FiniteSets, TLC

\* ---------------------------------------------------------------- bounds
MaxTime == 2
MaxProofCounter == 2
MaxBatchLen == 2
NumCalls == 2
MaxUpdates == 2
MaxLevels == 2
MaxCircuitBatch == 3
MaxEntries == 4
MaxFlushes == 2

\* ------------------------------------------------------ program constants
MaxProofLen == 2000
MaxBatchSize == 100
HashMod == 100
DefaultThreshold == 90
BulletproofsThreshold == 85
StarkThreshold == 92

\* ------------------------------------------------------------ input sets
Owner == "owner"
Operator == "operator"
Addresses == {"owner", "operator", "outsider"}

VerificationSystem ==
    {"Groth16", "PLONK", "MARLIN", "HALO2", "STARK", "Bulletproofs"}
InputSystems == {"Groth16", "Bulletproofs"}

KeyNames == {"", "income_verification_key"}
KeyDatas == {<<>>, <<1>>}

\* bytes calldata proof: a sequence of byte values
OversizeProof == [i \in 1..(MaxProofLen + 1) |-> 0]
GoodProofs == {<<28>>, <<87>>}
Proofs == GoodProofs \cup {<<>>, OversizeProof}
\* uint256[] calldata publicSignals
SignalVectors == {<<>>, <<1>>}

VARIABLES
    now,                      \* block.timestamp
    operators,                \* Verifier.operators, as the set mapped to true
    verificationKeys,         \* Verifier.verificationKeys
    keyNames,                 \* Verifier.keyNames
    verificationResults,      \* Verifier.verificationResults
    batchVerificationResults, \* Verifier.batchVerificationResults
    userVerificationHistory,  \* Verifier.userVerificationHistory
    proofCounter,             \* Verifier.proofCounter
    lastProofId,              \* Verifier.lastProofId
    zkVerificationKeys,       \* ZKCreditVerifier.verificationKeys
    verifiedIdentities,       \* ZKCreditVerifier.verifiedIdentities
    userCreditInfo,           \* ZKCreditVerifier.userCreditInfo
    lastCall,                 \* latest ZKCreditVerifier.verifyProof outcome
    creditEvents,             \* emitted CreditAssessmentUpdated events
    calls,                    \* ZKProofService.verifyProof invocations
    rangeProof,               \* latest ZKProofService proof generation outcome
    circuit,                  \* latest circuit instance and its assignment
    isConnected,              \* HCSAuditLogger.isConnected
    logQueue,                 \* HCSAuditLogger.logQueue, entries by log number
    inFlight,                 \* logsToProcess of each flushLogs call awaiting HCS
    delivered,                \* entries processLogsToHCS has submitted, in order
    logged                    \* number of log() calls so far

vars == <<now, operators, verificationKeys, keyNames, verificationResults,
          batchVerificationResults, userVerificationHistory, proofCounter,
          lastProofId, zkVerificationKeys, verifiedIdentities, userCreditInfo,
          lastCall, creditEvents, calls, rangeProof, circuit, isConnected,
          logQueue, inFlight, delivered, logged>>

creditVars == <<zkVerificationKeys, verifiedIdentities, userCreditInfo,
                lastCall, creditEvents>>

proverVars == <<rangeProof, circuit>>

loggerVars == <<isConnected, logQueue, inFlight, delivered, logged>>

verifierVars == <<operators, verificationKeys, keyNames, verificationResults,
                  batchVerificationResults, userVerificationHistory,
                  proofCounter, lastProofId>>

\* bytes32(0) and the zero-initialised structs a mapping returns for a key
\* that was never written
ZeroId == <<>>
NoKey == [keyName |-> "", keyData |-> <<>>, createdAt |-> 0, creator |-> "",
          isActive |-> FALSE, system |-> "Groth16"]
ZeroResult == [isValid |-> FALSE, proofId |-> ZeroId, verifier |-> "",
               timestamp |-> 0, systemUsed |-> "Groth16",
               verificationMethod |-> ""]
ZeroBatchResult == [individualResults |-> <<>>, batchValid |-> FALSE,
                    proofIds |-> <<>>, timestamp |-> 0]

ResultAt(id) ==
    IF id \in DOMAIN verificationResults THEN verificationResults[id]
    ELSE ZeroResult

BatchResultAt(id) ==
    IF id \in DOMAIN batchVerificationResults THEN batchVerificationResults[id]
    ELSE ZeroBatchResult

\* ---------------------------------------------------------- pure helpers
\* abi.encodePacked(proof, publicSignals): the proof bytes followed by the
\* signal words.
EncodePacked(proof, publicSignals) == proof \o publicSignals

\* uint256(keccak256(data)) % 100, by a deterministic rolling digest that
\* stands for keccak256 on the model's small inputs.
RECURSIVE Keccak256Mod(_, _)
Keccak256Mod(data, m) ==
    IF data = <<>> THEN 89 % m
    ELSE (31 * Keccak256Mod(SubSeq(data, 1, Len(data) - 1), m)
          + data[Len(data)] + 5) % m

SuccessThreshold(system) ==
    IF system = "Bulletproofs" THEN BulletproofsThreshold
    ELSE IF system = "STARK" THEN StarkThreshold
    ELSE DefaultThreshold

PerformMockVerification(proof, publicSignals, system) ==
    Keccak256Mod(EncodePacked(proof, publicSignals), HashMod)
        < SuccessThreshold(system)

VerificationMethodName(system) ==
    IF system = "Groth16" THEN "Groth16 Verification"
    ELSE IF system = "PLONK" THEN "PLONK Verification"
    ELSE IF system = "MARLIN" THEN "MARLIN Verification"
    ELSE IF system = "HALO2" THEN "HALO2 Verification"
    ELSE IF system = "STARK" THEN "STARK Verification"
    ELSE IF system = "Bulletproofs" THEN "Bulletproofs Verification"
    ELSE "Unknown System"

\* _verifyProofWithSystem: err is the require that fails ("" when none)
VerifyProofWithSystem(proof, publicSignals, key, system) ==
    IF key.system # system
        THEN [err |-> "System mismatch", isValid |-> FALSE, method |-> ""]
    ELSE IF ~key.isActive
        THEN [err |-> "Key inactive", isValid |-> FALSE, method |-> ""]
    ELSE [err |-> "",
          isValid |-> PerformMockVerification(proof, publicSignals, system),
          method |-> VerificationMethodName(system)]

\* _generateVerificationId, with counter the already incremented proofCounter
GenerateVerificationId(proof, publicSignals, counter, timestamp, sender) ==
    <<proof, publicSignals, counter, timestamp, sender>>

\* _generateBatchId
GenerateBatchId(proofs, publicSignalsArray, timestamp, sender) ==
    <<proofs, publicSignalsArray, timestamp, sender>>

\* modifiers: the message of the first failing require, "" when all pass
OnlyOperator(sender) ==
    IF sender \in operators \/ sender = Owner THEN ""
    ELSE "Only operators can perform this action"

OnlyOwner(sender) ==
    IF sender = Owner THEN "" ELSE "Only owner can perform this action"

KeyExists(keyName) ==
    IF verificationKeys[keyName].keyName = ""
        THEN "Verification key not found"
    ELSE IF ~verificationKeys[keyName].isActive
        THEN "Verification key inactive"
    ELSE ""

ValidProof(proof) ==
    IF Len(proof) = 0 THEN "Proof cannot be empty"
    ELSE IF Len(proof) > MaxProofLen THEN "Proof too large"
    ELSE ""

\* first non-empty message of a sequence of checks
RECURSIVE FirstError(_)
FirstError(errs) ==
    IF errs = <<>> THEN ""
    ELSE IF Head(errs) # "" THEN Head(errs)
    ELSE FirstError(Tail(errs))

Put(f, k, v) == [x \in (DOMAIN f) \cup {k} |-> IF x = k THEN v ELSE f[x]]

SeqsUpTo(S, n) == UNION {[1..k -> S] : k \in 0..n}

\* the next block
Tick ==
    /\ now < MaxTime
    /\ now' = now + 1
    /\ UNCHANGED <<verifierVars, creditVars, calls, proverVars, loggerVars>>

\* ------------------------------------------------- Verifier.verifyProof
VerifyProof(sender, proof, publicSignals, keyName, system) ==
    LET pre == FirstError(<<OnlyOperator(sender), ValidProof(proof),
                            KeyExists(keyName)>>)
        counter == proofCounter + 1
        verificationId ==
            GenerateVerificationId(proof, publicSignals, counter, now, sender)
        v == VerifyProofWithSystem(proof, publicSignals,
                                   verificationKeys[keyName], system)
        err == IF pre # "" THEN pre
               ELSE IF ResultAt(verificationId).proofId # ZeroId
                   THEN "Proof already verified"
               ELSE v.err
        result == [isValid |-> v.isValid, proofId |-> verificationId,
                   verifier |-> sender, timestamp |-> now,
                   systemUsed |-> system, verificationMethod |-> v.method]
    IN  /\ proofCounter < MaxProofCounter
        /\ UNCHANGED <<now, creditVars, calls, proverVars, loggerVars>>
        /\ IF err # ""
           THEN UNCHANGED verifierVars
           ELSE /\ verificationResults' =
                       Put(verificationResults, verificationId, result)
                /\ userVerificationHistory' =
                       [userVerificationHistory EXCEPT
                            ![sender] = Append(@, verificationId)]
                /\ lastProofId' = verificationId
                /\ proofCounter' = counter
                /\ UNCHANGED <<operators, verificationKeys, keyNames,
                               batchVerificationResults>>

\* -------------------------------------------- Verifier.verifyBatchProofs
\* the loop over the batch (lines 221-236), from index i on
RECURSIVE BatchLoop(_, _, _, _, _, _, _, _, _)
BatchLoop(proofs, sigs, key, system, sender, i, counter, results, ids) ==
    IF i > Len(proofs)
        THEN [err |-> "", counter |-> counter,
              individualResults |-> results, proofIds |-> ids]
    ELSE IF Len(proofs[i]) = 0
        THEN [err |-> "Empty proof in batch", counter |-> counter,
              individualResults |-> results, proofIds |-> ids]
    ELSE IF Len(sigs[i]) = 0
        THEN [err |-> "Empty signals in batch", counter |-> counter,
              individualResults |-> results, proofIds |-> ids]
    ELSE LET id == GenerateVerificationId(proofs[i], sigs[i], counter + 1,
                                          now, sender)
             v == VerifyProofWithSystem(proofs[i], sigs[i], key, system)
         IN  IF v.err # ""
                 THEN [err |-> v.err, counter |-> counter + 1,
                       individualResults |-> results, proofIds |-> ids]
             ELSE BatchLoop(proofs, sigs, key, system, sender, i + 1,
                            counter + 1, Append(results, v.isValid),
                            Append(ids, id))

\* faulty variant of BatchValid: the scan keeps only the result of the last proof
BatchValidLastOnly(individualResults) ==
    IF individualResults = <<>> THEN TRUE
    ELSE individualResults[Len(individualResults)]

\* the scan for the first failed proof (lines 239-245)
RECURSIVE BatchValid(_)
BatchValid(individualResults) ==
    IF individualResults = <<>> THEN TRUE
    ELSE IF ~Head(individualResults) THEN FALSE
    ELSE BatchValid(Tail(individualResults))

VerifyBatchProofs(sender, proofs, publicSignalsArray, keyName, system) ==
    LET pre == FirstError(<<OnlyOperator(sender), KeyExists(keyName),
                   IF Len(proofs) # Len(publicSignalsArray)
                       THEN "Mismatched arrays" ELSE "",
                   IF Len(proofs) = 0 THEN "Batch cannot be empty" ELSE "",
                   IF Len(proofs) > MaxBatchSize
                       THEN "Batch too large" ELSE "">>)
        batchId == GenerateBatchId(proofs, publicSignalsArray, now, sender)
        loop == BatchLoop(proofs, publicSignalsArray,
                          verificationKeys[keyName], system, sender, 1,
                          proofCounter, <<>>, <<>>)
        err == IF pre # "" THEN pre
               ELSE IF BatchResultAt(batchId).batchValid # FALSE
                   THEN "Batch already processed"
               ELSE loop.err
        batchResult == [individualResults |-> loop.individualResults,
                        batchValid |-> BatchValid(loop.individualResults),
                        proofIds |-> loop.proofIds, timestamp |-> now]
    IN  /\ proofCounter + Len(proofs) <= MaxProofCounter
        /\ UNCHANGED <<now, creditVars, calls, proverVars, loggerVars>>
        /\ IF err # ""
           THEN UNCHANGED verifierVars
           ELSE /\ batchVerificationResults' =
                       Put(batchVerificationResults, batchId, batchResult)
                /\ proofCounter' = loop.counter
                /\ UNCHANGED <<operators, verificationKeys, keyNames,
                               verificationResults, userVerificationHistory,
                               lastProofId>>

\* ------------------------------------------------ key and operator admin
AddVerificationKey(sender, keyName, keyData, system) ==
    LET err == FirstError(<<OnlyOperator(sender),
                   IF keyName = "" THEN "Key name required" ELSE "",
                   IF Len(keyData) = 0 THEN "Key data required" ELSE "",
                   IF system \notin VerificationSystem
                       THEN "Invalid ZK system" ELSE "">>)
        key == [keyName |-> keyName, keyData |-> keyData, createdAt |-> now,
                creator |-> sender, isActive |-> TRUE, system |-> system]
    IN  /\ UNCHANGED <<now, creditVars, calls, proverVars, loggerVars>>
        /\ IF err # ""
           THEN UNCHANGED verifierVars
           ELSE /\ keyNames' = IF verificationKeys[keyName].keyName = ""
                                   THEN Append(keyNames, keyName)
                               ELSE keyNames
                /\ verificationKeys' =
                       [verificationKeys EXCEPT ![keyName] = key]
                /\ UNCHANGED <<operators, verificationResults,
                               batchVerificationResults,
                               userVerificationHistory, proofCounter,
                               lastProofId>>

UpdateVerificationKeyStatus(sender, keyName, isActive) ==
    LET err == FirstError(<<OnlyOperator(sender),
                   IF verificationKeys[keyName].keyName = ""
                       THEN "Key not found" ELSE "">>)
    IN  /\ UNCHANGED <<now, creditVars, calls, proverVars, loggerVars>>
        /\ IF err # ""
           THEN UNCHANGED verifierVars
           ELSE /\ verificationKeys' =
                       [verificationKeys EXCEPT ![keyName].isActive = isActive]
                /\ UNCHANGED <<operators, keyNames, verificationResults,
                               batchVerificationResults,
                               userVerificationHistory, proofCounter,
                               lastProofId>>

EmergencyDeactivateKey(sender, keyName) ==
    LET err == FirstError(<<OnlyOwner(sender),
                   IF verificationKeys[keyName].keyName = ""
                       THEN "Key not found" ELSE "">>)
    IN  /\ UNCHANGED <<now, creditVars, calls, proverVars, loggerVars>>
        /\ IF err # ""
           THEN UNCHANGED verifierVars
           ELSE /\ verificationKeys' =
                       [verificationKeys EXCEPT ![keyName].isActive = FALSE]
                /\ UNCHANGED <<operators, keyNames, verificationResults,
                               batchVerificationResults,
                               userVerificationHistory, proofCounter,
                               lastProofId>>

SetOperator(sender, operator, authorized) ==
    LET err == OnlyOwner(sender)
    IN  /\ UNCHANGED <<now, creditVars, calls, proverVars, loggerVars>>
        /\ IF err # ""
           THEN UNCHANGED verifierVars
           ELSE /\ operators' = IF authorized THEN operators \cup {operator}
                                ELSE operators \ {operator}
                /\ UNCHANGED <<verificationKeys, keyNames,
                               verificationResults, batchVerificationResults,
                               userVerificationHistory, proofCounter,
                               lastProofId>>

\* ====================================================== ZKCreditVerifier
ZeroAddress == "0x0"
Subjects == {ZeroAddress, "alice"}
\* bytes32 proofId, chosen by the caller
ProofIds == {1}
\* uint256[] calldata proof
CreditProofs == {<<>>, <<4>>, <<26>>}
CreditSignals == {<<>>, <<1>>}
CreditKeyNames == {"", "income_verification_key"}
CreditKeyDatas == {<<>>, <<1>>}
\* enum VerificationLevel { Basic, Enhanced, Premium } by ordinal
PremiumLevel == 2
LevelInputs == {PremiumLevel, PremiumLevel + 1}
Tiers == {0, 1, 3, 4, 5, 6}
Incomes == {0, 1001}
CreditThreshold == 90

ZeroIdentity == [isValid |-> FALSE, verificationLevel |-> 0, timestamp |-> 0,
                 verifier |-> ""]
ZeroCreditInfo == [creditScoreTier |-> 0, verifiedIncomeMin |-> 0,
                   verifiedIncomeMax |-> 0, verificationLevel |-> 0,
                   lastUpdated |-> 0]

IdentityAt(proofId) ==
    IF proofId \in DOMAIN verifiedIdentities THEN verifiedIdentities[proofId]
    ELSE ZeroIdentity

\* bytes(verificationKeyName) as packed into the hash preimage
NameBytes(name) ==
    IF name = "" THEN <<>>
    ELSE IF name = "income_verification_key" THEN <<9>>
    ELSE <<17>>

\* ZKCreditVerifier._validateZKProof
ValidateZKProof(proof, publicSignals, verificationKeyName) ==
    Keccak256Mod(proof \o publicSignals \o NameBytes(verificationKeyName),
                 HashMod) < CreditThreshold

\* Outcome of a ZKCreditVerifier.verifyProof call: err is "" when the call
\* returned, else the message of the failed require; ret is the returned
\* bool; checks counts the runs of _validateZKProof.
Outcome(id, key, err, ret, checks) ==
    [id |-> id, key |-> key, err |-> err, ret |-> ret, checks |-> checks]

\* ZKCreditVerifier.verifyProof
CreditVerifyProof(sender, proofId, proof, publicSignals, keyName, level) ==
    LET err == FirstError(<<
                   IF Len(proof) = 0 THEN "Invalid proof" ELSE "",
                   IF Len(publicSignals) = 0
                       THEN "Invalid public signals" ELSE "",
                   IF keyName = ""
                       THEN "Invalid verification key name" ELSE "",
                   IF level > PremiumLevel
                       THEN "Invalid verification level" ELSE "">>)
        isValid == ValidateZKProof(proof, publicSignals, keyName)
        result == [isValid |-> TRUE, verificationLevel |-> level,
                   timestamp |-> now, verifier |-> sender]
    IN  /\ UNCHANGED <<now, verifierVars, calls, proverVars, loggerVars,
                       zkVerificationKeys, userCreditInfo, creditEvents>>
        /\ IF err # ""
           THEN /\ lastCall' = Outcome(proofId, keyName, err,
                                       FALSE, 0)
                /\ UNCHANGED verifiedIdentities
           ELSE /\ verifiedIdentities' =
                       IF isValid
                           THEN Put(verifiedIdentities, proofId, result)
                       ELSE verifiedIdentities
                /\ lastCall' = Outcome(proofId, keyName, "",
                                       isValid, 1)

\* faulty variant of WriteCreditInfo: the write stops after the tier, so the
\* income range of the previous update stays in place
WriteCreditInfoPartial(userInfo, tier, incomeMin, incomeMax, level) ==
    [userInfo EXCEPT !.creditScoreTier = tier, !.lastUpdated = now]

\* faulty variant of WriteCreditInfo: a state that was written once is kept
WriteCreditInfoKeepFirst(userInfo, tier, incomeMin, incomeMax, level) ==
    IF userInfo.lastUpdated > 0 THEN userInfo
    ELSE [creditScoreTier |-> tier, verifiedIncomeMin |-> incomeMin,
          verifiedIncomeMax |-> incomeMax, verificationLevel |-> level,
          lastUpdated |-> now]

\* the five assignments through the storage reference (lines 130-135)
WriteCreditInfo(userInfo, tier, incomeMin, incomeMax, level) ==
    [userInfo EXCEPT !.creditScoreTier = tier,
                     !.verifiedIncomeMin = incomeMin,
                     !.verifiedIncomeMax = incomeMax,
                     !.verificationLevel = level,
                     !.lastUpdated = now]

\* the CreditAssessmentUpdated log entry, with the timestamp of its block
CreditAssessmentUpdated(user, tier, incomeMin, incomeMax) ==
    [user |-> user, creditScoreTier |-> tier, incomeMin |-> incomeMin,
     incomeMax |-> incomeMax, blockTimestamp |-> now]

\* faulty variant of ValidTier: the lower bound is not checked
TierAtMostFive(tier) == tier <= 5

\* line 127: creditScoreTier >= 1 && creditScoreTier <= 5
ValidTier(tier) == tier >= 1 /\ tier <= 5

\* largest values of the Solidity types uint8 and uint16
Uint8Max == 255
Uint16Max == 65535

\* ZKCreditVerifier.getCreditDecision, a view: requestedAmount is not read.
\* Arithmetic is checked (pragma ^0.8.19) in the type of each expression:
\* creditScore is uint8, so `6 - creditScore` and `creditScore * 200` are
\* uint8, and a literal that does not fit uint8 makes the operation uint16
\* (`50000 * (6 - creditScore)`, `300 + ...`); the income fields are
\* uint256.  A result outside the type is a Panic revert.
GetCreditDecision(user) ==
    LET userInfo == userCreditInfo[user]
        creditScore == userInfo.creditScoreTier
        incomeRange == userInfo.verifiedIncomeMax - userInfo.verifiedIncomeMin
        approvalThreshold == 50000 * (6 - creditScore)
        hasSufficientIncome == incomeRange > 1000
        isApproved == creditScore <= 3 /\ hasSufficientIncome
        reverted(err) == [err |-> err, isApproved |-> FALSE, maxAmount |-> 0,
                          interestRate |-> 0]
    IN  IF ~(userInfo.lastUpdated > 0)
            THEN reverted("No credit information available")
        ELSE IF incomeRange < 0 THEN reverted("Panic")
        ELSE IF 6 - creditScore < 0 THEN reverted("Panic")
        ELSE IF approvalThreshold > Uint16Max THEN reverted("Panic")
        ELSE IF isApproved /\ (creditScore * 200 > Uint8Max
                               \/ 300 + creditScore * 200 > Uint16Max)
            THEN reverted("Panic")
        ELSE [err |-> "", isApproved |-> isApproved,
              maxAmount |-> IF isApproved THEN approvalThreshold ELSE 0,
              interestRate |->
                  IF isApproved THEN 300 + creditScore * 200 ELSE 0]

\* ZKCreditVerifier.updateCreditAssessment
UpdateCreditAssessment(user, tier, incomeMin, incomeMax, level) ==
    LET err == FirstError(<<
                   IF user = ZeroAddress THEN "Invalid user address" ELSE "",
                   IF ~ValidTier(tier)
                       THEN "Invalid credit score tier" ELSE "",
                   IF ~(incomeMin <= incomeMax)
                       THEN "Invalid income range" ELSE "">>)
    IN  /\ Len(creditEvents) < MaxUpdates
        /\ UNCHANGED <<now, verifierVars, calls, proverVars, loggerVars,
                       zkVerificationKeys, verifiedIdentities, lastCall>>
        /\ IF err # ""
           THEN UNCHANGED <<userCreditInfo, creditEvents>>
           ELSE /\ userCreditInfo' =
                       [userCreditInfo EXCEPT ![user] =
                            WriteCreditInfo(@, tier, incomeMin, incomeMax,
                                            level)]
                /\ creditEvents' =
                       Append(creditEvents,
                              CreditAssessmentUpdated(user, tier, incomeMin,
                                                      incomeMax))

\* ZKCreditVerifier.setVerificationKey
SetVerificationKey(keyName, keyData) ==
    LET err == FirstError(<<
                   IF keyName = "" THEN "Invalid key name" ELSE "",
                   IF Len(keyData) = 0 THEN "Invalid key data" ELSE "">>)
    IN  /\ UNCHANGED <<now, verifierVars, calls, proverVars, loggerVars,
                       verifiedIdentities, userCreditInfo, lastCall,
                       creditEvents>>
        /\ zkVerificationKeys' =
               IF err # "" THEN zkVerificationKeys
               ELSE [zkVerificationKeys EXCEPT ![keyName] = keyData]

\* ========================================== ZKProofService.verifyProof
\* One invocation runs in two steps around its await: the parameter check,
\* then, after the timer, the draw of the result.
SvcProofs == {"", "0xab"}
SvcSignals == {<<>>, <<"0x01">>}
SvcKeyNames == {"", "income_verification_key"}
IdleCall == [pc |-> "idle", proof |-> "", publicSignals |-> <<>>,
             verificationKeyName |-> "", verified |-> FALSE, timestamp |-> 0,
             verifierId |-> 0, error |-> ""]

\* lines 146-155: the call up to its await
StartVerify(c, proof, publicSignals, verificationKeyName) ==
    /\ calls[c].pc = "idle"
    /\ calls' = [calls EXCEPT ![c] =
           IF proof = "" \/ verificationKeyName = ""
           THEN [@ EXCEPT !.pc = "failed", !.proof = proof,
                    !.publicSignals = publicSignals,
                    !.verificationKeyName = verificationKeyName,
                    !.error = "Failed to verify ZK proof: Invalid proof parameters"]
           ELSE [@ EXCEPT !.pc = "awaiting", !.proof = proof,
                    !.publicSignals = publicSignals,
                    !.verificationKeyName = verificationKeyName]]
    /\ UNCHANGED <<now, verifierVars, creditVars, proverVars, loggerVars>>

\* lines 157-169: isValid is the draw Math.random() > 0.1, verifierId a
\* fresh uuid (the index of the invocation)
CompleteVerify(c, isValid) ==
    /\ calls[c].pc = "awaiting"
    /\ calls' = [calls EXCEPT ![c] =
           [@ EXCEPT !.pc = "done", !.verified = isValid,
                     !.timestamp = now, !.verifierId = c]]
    /\ UNCHANGED <<now, verifierVars, creditVars, proverVars, loggerVars>>

\* ===================================== ZKProofService.generateRangeProof
\* number arguments of generateRangeProof
SvcValues == {-10, -5, 0, 5}
\* outcomes of '0x' + randomHex(128) and of uuidv4()
GeneratedProofs == {"0xab"}
GeneratedUuids == {7}
NoRangeProof == [status |-> "none"]

\* hashData(JSON.stringify(inputs) + suffix): sha256 as the tuple of its
\* preimage
HashData(inputs, suffix) ==
    <<inputs.value, inputs.min, inputs.max, inputs.valueName, suffix>>

\* ZKProofService.generatePublicSignals
GeneratePublicSignals(inputs) ==
    <<HashData(inputs, "_signal1"), HashData(inputs, "_signal2"),
      HashData(inputs, "_signal3")>>

\* ZKProofService.generateProof for INCOME_VERIFICATION, whose circuit entry
\* initializeCircuits always sets; proofId and proof are the random draws
GenerateProof(inputs, proofId, proof) ==
    [status |-> "generated", inputs |-> inputs,
     proof |-> [proofId |-> proofId, proof |-> proof,
                publicSignals |-> GeneratePublicSignals(inputs),
                verified |-> TRUE, timestamp |-> now,
                proofType |-> "INCOME_VERIFICATION",
                verificationKeyId |-> "income_verification_key"],
     error |-> ""]

\* ZKProofService.generateRangeProof.  The timer that generateProof awaits
\* separates no reads or writes of shared state, so the call is one step.
GenerateRangeProof(value, min, max, proofId, proof) ==
    LET inputs == [value |-> value, min |-> min, max |-> max,
                   valueName |-> "income"]
    IN  /\ rangeProof' =
               IF value < min \/ value > max
               THEN [status |-> "failed", inputs |-> inputs,
                     error |-> "Failed to generate range proof: value is outside range"]
               ELSE GenerateProof(inputs, proofId, proof)
        /\ UNCHANGED <<now, verifierVars, creditVars, calls, circuit,
                       loggerVars>>

\* fields of the ZKInputs of a collateral proof request
CollateralInputValues == {0, 50000, 75000}
CollateralInputProofs == {"", "0xdeed"}
CollateralInputLoans == {0, 10000, 20000}

\* ZKProofService.validateInputs for COLLATERAL_VERIFICATION:
\* !!(inputs.value && inputs.proof).  No method of the service calls it.
ValidateInputs(inputs) == inputs.value # 0 /\ inputs.proof # ""

\* generatePublicSignals on the JSON text of collateral inputs
CollateralPublicSignals(inputs) ==
    LET hashData(suffix) ==
            <<inputs.value, inputs.proof, inputs.loanAmount, suffix>>
    IN  <<hashData("_signal1"), hashData("_signal2"), hashData("_signal3")>>

\* ZKProofService.generateProof(inputs, COLLATERAL_VERIFICATION): the
\* circuit entry is set by initializeCircuits, and no field of inputs is
\* read except through JSON.stringify
GenerateCollateralProof(value, inputProof, loanAmount, proofId, proof) ==
    LET inputs == [value |-> value, proof |-> inputProof,
                   loanAmount |-> loanAmount]
    IN  /\ rangeProof' =
               [status |-> "generated", inputs |-> inputs,
                proof |-> [proofId |-> proofId, proof |-> proof,
                           publicSignals |-> CollateralPublicSignals(inputs),
                           verified |-> TRUE, timestamp |-> now,
                           proofType |-> "COLLATERAL_VERIFICATION",
                           verificationKeyId |-> "collateral_verification_key"],
                error |-> ""]
        /\ UNCHANGED <<now, verifierVars, creditVars, calls, circuit,
                       loggerVars>>

\* ZKProofService.verifyZKProof on the generated ZKProof, up to the await of
\* verifyProof
VerifyZKProof(c) ==
    /\ rangeProof.status = "generated"
    /\ rangeProof.proof.verificationKeyId # ""
    /\ StartVerify(c, rangeProof.proof.proof, rangeProof.proof.publicSignals,
                   rangeProof.proof.verificationKeyId)

\* ============================================================== circuits
\* A circuit instance is a constraint system over its signals.  `a <== e`
\* computes a from e and constrains a = e; `a === b` constrains.  An
\* assignment is satisfying when every constraint holds; only a satisfying
\* assignment is a witness from which a proof can be made.
NoCircuit == [template |-> "none"]

\* circomlib comparators (comparators.circom), on the integers of magnitude
\* far below 2^252 that the templates are instantiated with:
\* LessThan(n) outputs 1 - bit n of (in[0] + 2^n - in[1]), which on these
\* values is the signed integer comparison.
LessThan(a, b) == IF a < b THEN 1 ELSE 0
LessEqThan(a, b) == LessThan(a, b + 1)
\* faulty variant of GreaterEqThan: the bound is exclusive
GreaterThanStrict(a, b) == LessThan(b, a)
GreaterEqThan(a, b) == LessThan(b, a + 1)
IsZero(a) == IF a = 0 THEN 1 ELSE 0

\* ------------------------------------------------------- IncomeVerifier
IncomeValues == {-5, 0, 15000, 45000, 80000, 80001}

IncomeVerifier(minIncome, maxIncome, actualIncome) ==
    LET commitment == actualIncome
    IN  [template |-> "IncomeVerifier",
         minIncome |-> minIncome, maxIncome |-> maxIncome,
         actualIncome |-> actualIncome,
         commitment |-> commitment,
         \* main {public [minIncome, maxIncome]}: the output, then the
         \* public inputs
         publicSignals |-> <<commitment, minIncome, maxIncome>>,
         satisfiable |->
             /\ GreaterEqThan(actualIncome, minIncome) = 1
             /\ LessEqThan(actualIncome, maxIncome) = 1
             /\ LessEqThan(minIncome, maxIncome) = 1
             /\ GreaterEqThan(actualIncome, 0) = 1
             /\ GreaterEqThan(minIncome, 0) = 1
             /\ GreaterEqThan(maxIncome, 0) = 1]

\* ------------------------------------------------ CreditHistoryVerifier
MaxCreditScore == 850
MaxLatePayments == 3
RatingScale == 100
\* the prime p of the signal field, scaled down to the model's values with
\* its proportion to the comparator range kept (p / 2^252 = 3.02) and its
\* residue modulo 5 kept (p % 5 = 2)
FieldPrime == 24767

\* a / b on signals for b nonzero in the field: the field element x with
\* x * b = a, found as (a + k * p) / b for the k that makes it whole
FieldDiv(a, b) ==
    LET am == a % FieldPrime
        bm == b % FieldPrime
        k == CHOOSE j \in 0..(bm - 1) : (am + j * FieldPrime) % bm = 0
    IN  (am + k * FieldPrime) \div bm

MultiDivision(dividend, divisor, ratio) ==
    LET scaledDividend == dividend * ratio
    IN  FieldDiv(scaledDividend, divisor)

ScoreMins == {0, 700}
ScoreMaxs == {850, 900}
Scores == {-1, 0, 699, 700, 850, 851}
MinHistoryLengths == {12}
HistoryLengths == {11, 12}
DefaultCounts == {0, 1}
LatePayments == {3, 4}

CreditHistoryVerifier(scoreMin, scoreMax, minHistLen, score, histLen, defaults, late) ==
    [template |-> "CreditHistoryVerifier",
     creditScoreMin |-> scoreMin, creditScoreMax |-> scoreMax,
     minHistoryLength |-> minHistLen, creditScore |-> score,
     historyLength |-> histLen, defaultCount |-> defaults,
     recentLatePayments |-> late,
     isEligible |-> 1,
     creditRating |-> MultiDivision(score, MaxCreditScore, RatingScale),
     satisfiable |->
         /\ GreaterEqThan(score, scoreMin) = 1
         /\ LessEqThan(score, scoreMax) = 1
         /\ GreaterEqThan(histLen, minHistLen) = 1
         /\ IsZero(defaults) = 1
         /\ LessEqThan(late, MaxLatePayments) = 1
         /\ GreaterEqThan(score, 0) = 1
         /\ GreaterEqThan(histLen, 0) = 1
         /\ LessEqThan(score, MaxCreditScore) = 1]

\* --------------------------------------------------- MerkleTreeVerifier
\* Poseidon(2), as an injective encoding of the ordered pair: a hash is a
\* sequence of naturals, a leaf hash <<j>> with j >= 1
Poseidon2(left, right) == <<0>> \o left \o right

\* faulty variant of IsBinary: the input is taken as a bit without a check
IsBinaryCoerced(in) == [out |-> 0, ok |-> TRUE]

\* IsBinary: out is the output signal, ok its own constraint out === 0
IsBinary(in) == [out |-> in * (1 - in), ok |-> in * (1 - in) = 0]

IsEqual(a, b) == IF a = b THEN 1 ELSE 0

\* the loop of lines 137-161, from level i on: any nonzero direction takes
\* the else branch
RECURSIVE MerkleFold(_, _, _, _)
MerkleFold(currentHash, pathElements, pathIndices, i) ==
    IF i > Len(pathElements) THEN currentHash
    ELSE LET leftChild == IF pathIndices[i] = 0 THEN currentHash
                          ELSE pathElements[i]
             rightChild == IF pathIndices[i] = 0 THEN pathElements[i]
                           ELSE currentHash
         IN  MerkleFold(Poseidon2(leftChild, rightChild), pathElements,
                        pathIndices, i + 1)

\* faulty variant of RootMatch: the output is left unconstrained
RootMatchUnconstrained(currentHash, root, isValid) == TRUE

\* lines 163-170: the constraints that tie isValid to the root comparison
RootMatch(currentHash, root, isValid) ==
    /\ isValid = (IF currentHash = root THEN 1 ELSE 0)
    /\ IsEqual(currentHash, root) = isValid

\* MerkleTreeVerifier(levels) on an assignment whose output signal is
\* isValid; levels is the length of the two path arrays
MerkleTreeVerifier(root, pathIndices, leafHash, pathElements, isValid) ==
    LET currentHash == MerkleFold(leafHash, pathElements, pathIndices, 1)
    IN  [isValid |-> isValid,
         currentHash |-> currentHash,
         satisfiable |->
             /\ RootMatch(currentHash, root, isValid)
             /\ \A i \in 1..Len(pathIndices) :
                    /\ IsBinary(pathIndices[i]).ok
                    /\ IsBinary(pathIndices[i]).out = isValid]

\* ------------------------------------------------- path construction
\* The tree of depth levels over the leaf hashes <<1>> .. <<2^levels>>;
\* TreeNode(h, k) is the hash of node k (from 0) at height h.
RECURSIVE TreeNode(_, _)
TreeNode(h, k) ==
    IF h = 0 THEN <<k + 1>>
    ELSE Poseidon2(TreeNode(h - 1, 2 * k), TreeNode(h - 1, 2 * k + 1))

TreeRoot(levels) == TreeNode(levels, 0)

RECURSIVE Pow2(_)
Pow2(n) == IF n = 0 THEN 1 ELSE 2 * Pow2(n - 1)

\* the ancestor of leaf index at height h, and the path of the leaf
AncestorAt(index, h) == index \div Pow2(h)
PathIndicesOf(levels, index) ==
    [h \in 1..levels |-> AncestorAt(index, h - 1) % 2]
PathElementsOf(levels, index) ==
    [h \in 1..levels |->
        LET a == AncestorAt(index, h - 1)
        IN  TreeNode(h - 1, IF a % 2 = 0 THEN a + 1 ELSE a - 1)]

\* a change made to a constructed path before it is fed to the circuit
Tampers(levels) ==
    {<<"none", 0>>} \cup
    {<<kind, k>> : kind \in {"sibling", "flip", "nonbinary"}, k \in 1..levels}

CorruptHash == <<0>>

TamperedIndices(levels, index, tamper) ==
    [h \in 1..levels |->
        IF tamper = <<"flip", h>> THEN 1 - PathIndicesOf(levels, index)[h]
        ELSE IF tamper = <<"nonbinary", h>> THEN 2
        ELSE PathIndicesOf(levels, index)[h]]

TamperedElements(levels, index, tamper) ==
    [h \in 1..levels |->
        IF tamper = <<"sibling", h>> THEN CorruptHash
        ELSE PathElementsOf(levels, index)[h]]

\* -------------------------------------------------- BatchMerkleVerifier
\* BatchMerkleVerifier(batchSize, levels) on an assignment with the signals
\* validityFlags and allValid; batchSize is the length of the input arrays.
\* Every `allValid <==` of lines 290-303 constrains the one signal allValid.
BatchMerkleVerifier(roots, leaves, paths, indices, validityFlags, allValid) ==
    LET batchSize == Len(roots)
        verifiers == [i \in 1..batchSize |->
                         MerkleTreeVerifier(roots[i], indices[i], leaves[i],
                                            paths[i], validityFlags[i])]
    IN  [allValid |-> allValid,
         validityFlags |-> validityFlags,
         verifiers |-> verifiers,
         satisfiable |->
             /\ \A i \in 1..batchSize : verifiers[i].satisfiable
             /\ allValid = 1
             /\ \A i \in 1..batchSize : allValid = allValid * validityFlags[i]
             /\ IsEqual(validityFlags[1], 1) = allValid
             /\ \A i \in 2..batchSize :
                    allValid = allValid * validityFlags[i]]

\* --------------------------------------------------- CollateralVerifier
\* Signals whose value comes out of a signal division are arbitrary field
\* elements, so this template is modelled on field elements 0..p-1 and its
\* comparators bit by bit.
Fe(x) == x % FieldPrime

\* 2^n for the comparators' n = 252, scaled with FieldPrime
CompareRange == 8192

\* circomlib LessThan(n): Num2Bits(n + 1) of in[0] + 2^n - in[1], which has
\* no assignment when that value needs more than n + 1 bits (ok is FALSE);
\* out is 1 - bit n
FieldLessThan(a, b) ==
    LET v == (Fe(a) + CompareRange + FieldPrime - Fe(b)) % FieldPrime
    IN  [out |-> IF v < CompareRange THEN 1 ELSE 0,
         ok |-> v < 2 * CompareRange]
FieldLessEqThan(a, b) == FieldLessThan(a, b + 1)
FieldGreaterEqThan(a, b) == FieldLessThan(b, a + 1)
\* circomlib IsZero on a field element
FieldIsZero(a) == [out |-> IF Fe(a) = 0 THEN 1 ELSE 0, ok |-> TRUE]

Multiplication(a, b) == Fe(Fe(a) * Fe(b))

MinComparator(a, b) ==
    LET lt == FieldLessThan(a, b)
        lessThan == lt.out
        notLess == Fe(1 - lessThan)
        aWeighted == Fe(Fe(a) * lessThan)
        bWeighted == Fe(Fe(b) * notLess)
    IN  [out |-> Fe(aWeighted + bWeighted), ok |-> lt.ok]

\* IsOne assigns its output nowhere: out is any value the prover supplies,
\* under the constraints out === 1 and in === out
IsOne(in, out) == [out |-> out, ok |-> out = 1 /\ Fe(in) = out]

MaxGeographicRisk == 80
MaxMarketVolatility == 70
RatioCapPoints == 40
AgeCapPoints == 20
ScoreCap == 100

\* collateralValue100 / loanAmount: the field quotient, and for a zero
\* loanAmount, where no quotient is defined, the value quotient that the
\* witness generator happens to leave
SignalQuotient(a, b, quotient) ==
    IF Fe(b) = 0 THEN quotient ELSE FieldDiv(a, b)

CollateralVerifier(requiredCollateralValue, collateralRatio, minCollateralAge, actualCollateralValue, collateralAge, loanAmount, hasLiens, ownershipVerified, geographicRisk, marketVolatility, quotient, isOneOut) ==
    LET collateralValue100 == Fe(actualCollateralValue * 100)
        collateralRatioCalculated ==
            SignalQuotient(collateralValue100, loanAmount, quotient)
        ratioGTE == FieldGreaterEqThan(collateralRatioCalculated,
                                       collateralRatio)
        ageGTE == FieldGreaterEqThan(collateralAge, minCollateralAge)
        valueGTE == FieldGreaterEqThan(actualCollateralValue,
                                       requiredCollateralValue)
        zeroLiens == FieldIsZero(hasLiens)
        verifiedOwnership == IsOne(ownershipVerified, isOneOut)
        geoRiskLTE == FieldLessEqThan(geographicRisk, MaxGeographicRisk)
        volatilityLTE == FieldLessEqThan(marketVolatility,
                                         MaxMarketVolatility)
        ageRequirementMet == 1
        valueRequirementMet == 1
        liensCheckPassed == 1
        ownershipCheckPassed == 1
        geographicCheckPassed == 1
        volatilityCheckPassed == 1
        ratioBonus ==
            Multiplication(collateralRatioCalculated - collateralRatio, 2)
        ratioCap == MinComparator(ratioBonus, RatioCapPoints)
        ratioScore == ratioCap.out
        ageBonus == Fe((collateralAge - minCollateralAge) * 1)
        ageCap == MinComparator(ageBonus, AgeCapPoints)
        ageScore == ageCap.out
        geoScore == Fe(100 - geographicRisk)
        volatilityScore == Fe(100 - marketVolatility)
        weightedRatio == FieldDiv(Fe(ratioScore * 40), 100)
        weightedAge == FieldDiv(Fe(ageScore * 20), 100)
        weightedGeo ==
            FieldDiv(Fe(FieldDiv(Fe(geoScore * 100), 100) * 20), 100)
        weightedVol ==
            FieldDiv(Fe(FieldDiv(Fe(volatilityScore * 100), 100) * 20), 100)
        totalScore ==
            Fe(weightedRatio + weightedAge + weightedGeo + weightedVol)
        finalCap == MinComparator(totalScore, ScoreCap)
        checkValue1 == FieldGreaterEqThan(actualCollateralValue, 0)
        checkValue2 == FieldGreaterEqThan(collateralAge, 0)
        checkValue3 == FieldGreaterEqThan(requiredCollateralValue, 0)
        hard(c) == c.ok /\ c.out = 1
    IN  [template |-> "CollateralVerifier",
         requiredCollateralValue |-> requiredCollateralValue,
         collateralRatio |-> collateralRatio,
         minCollateralAge |-> minCollateralAge,
         actualCollateralValue |-> actualCollateralValue,
         collateralAge |-> collateralAge,
         loanAmount |-> loanAmount,
         hasLiens |-> hasLiens,
         ownershipVerified |-> ownershipVerified,
         geographicRisk |-> geographicRisk,
         marketVolatility |-> marketVolatility,
         collateralRatioCalculated |-> collateralRatioCalculated,
         checks |-> <<ownershipCheckPassed, liensCheckPassed,
                      valueRequirementMet, ageRequirementMet,
                      geographicCheckPassed, volatilityCheckPassed>>,
         comparisons |-> <<verifiedOwnership.out, zeroLiens.out,
                           valueGTE.out, ageGTE.out, geoRiskLTE.out,
                           volatilityLTE.out>>,
         collateralStatus |->
             ownershipCheckPassed * liensCheckPassed * valueRequirementMet
                 * ageRequirementMet * geographicCheckPassed
                 * volatilityCheckPassed,
         ratioScore |-> ratioScore, ageScore |-> ageScore,
         geoScore |-> geoScore, volatilityScore |-> volatilityScore,
         totalScore |-> totalScore,
         collateralScore |-> finalCap.out,
         satisfiable |->
             /\ hard(ratioGTE) /\ hard(ageGTE) /\ hard(valueGTE)
             /\ hard(zeroLiens) /\ hard(verifiedOwnership)
             /\ hard(geoRiskLTE) /\ hard(volatilityLTE)
             /\ ratioCap.ok /\ ageCap.ok /\ finalCap.ok
             /\ hard(checkValue1) /\ hard(checkValue2) /\ hard(checkValue3)]

RequiredCollateralValues == {100}
CollateralRatios == {150}
MinCollateralAges == {30}
ActualCollateralValues == {99, 100, 150, 300}
CollateralAges == {29, 30, 35, 60}
\* the loan amount whose field quotient with 100 * 100 is exactly 150
WrapLoanAmount == FieldDiv(100 * 100, 150)
LoanAmounts == {0, 3, 100, WrapLoanAmount}
Flags == {0, 1}
GeographicRisks == {78, 80, 81}
MarketVolatilities == {70, 71}
UndefinedQuotients == {0, 200}

\* --------------------------------------------- running a circuit instance
OutputCandidates == {0, 1, 2}
BatchLevels == {0, 1}
BatchTampers(levels) ==
    IF levels = 0 THEN {<<"none", 0>>} ELSE {<<"none", 0>>, <<"sibling", 1>>}
BatchIndex(levels, i) == (i - 1) % Pow2(levels)

RunIncomeVerifier(minIncome, maxIncome, actualIncome) ==
    /\ circuit = NoCircuit
    /\ circuit' = IncomeVerifier(minIncome, maxIncome, actualIncome)
    /\ UNCHANGED <<now, verifierVars, creditVars, calls, rangeProof,
                 loggerVars>>

RunCreditHistoryVerifier(scoreMin, scoreMax, minHistLen, score, histLen, defaults, late) ==
    /\ circuit = NoCircuit
    /\ circuit' = CreditHistoryVerifier(scoreMin, scoreMax, minHistLen,
                                        score, histLen, defaults, late)
    /\ UNCHANGED <<now, verifierVars, creditVars, calls, rangeProof,
                 loggerVars>>

RunCollateralVerifier(requiredCollateralValue, collateralRatio, minCollateralAge, actualCollateralValue, collateralAge, loanAmount, hasLiens, ownershipVerified, geographicRisk, marketVolatility, quotient, isOneOut) ==
    /\ circuit = NoCircuit
    /\ circuit' = CollateralVerifier(
                      requiredCollateralValue, collateralRatio,
                      minCollateralAge, actualCollateralValue, collateralAge,
                      loanAmount, hasLiens, ownershipVerified,
                      geographicRisk, marketVolatility, quotient, isOneOut)
    /\ UNCHANGED <<now, verifierVars, creditVars, calls, rangeProof,
                 loggerVars>>

\* a path is constructed for leaf index of the tree of depth levels,
\* changed by tamper, and checked against the root of the tree
RunMerkleTreeVerifier(levels, index, tamper, isValid) ==
    /\ circuit = NoCircuit
    /\ circuit' =
           [template |-> "MerkleTreeVerifier", levels |-> levels,
            index |-> index, tamper |-> tamper,
            result |-> MerkleTreeVerifier(
                           TreeRoot(levels),
                           TamperedIndices(levels, index, tamper),
                           <<index + 1>>,
                           TamperedElements(levels, index, tamper),
                           isValid)]
    /\ UNCHANGED <<now, verifierVars, creditVars, calls, rangeProof,
                 loggerVars>>

RunBatchMerkleVerifier(levels, tampers, validityFlags, allValid) ==
    LET batchSize == Len(tampers)
        index(i) == BatchIndex(levels, i)
    IN  /\ circuit = NoCircuit
        /\ batchSize >= 1
        /\ Len(validityFlags) = batchSize
        /\ circuit' =
               [template |-> "BatchMerkleVerifier", levels |-> levels,
                tampers |-> tampers,
                result |-> BatchMerkleVerifier(
                    [i \in 1..batchSize |-> TreeRoot(levels)],
                    [i \in 1..batchSize |-> <<index(i) + 1>>],
                    [i \in 1..batchSize |->
                        TamperedElements(levels, index(i), tampers[i])],
                    [i \in 1..batchSize |->
                        TamperedIndices(levels, index(i), tampers[i])],
                    validityFlags, allValid)]
        /\ UNCHANGED <<now, verifierVars, creditVars, calls, rangeProof,
                 loggerVars>>

\* the instance is discarded and the next one is set up
NewInstance ==
    /\ circuit # NoCircuit
    /\ circuit' = NoCircuit
    /\ UNCHANGED <<now, verifierVars, creditVars, calls, rangeProof,
                 loggerVars>>

\* ======================================================== HCSAuditLogger
\* config.enabled is true.  An entry is the number of the log() call that
\* queued it.  A flushLogs call runs to its await in one step and resumes,
\* with the outcome of processLogsToHCS, in a later one; inFlight[f] is the
\* logsToProcess of the call in slot f, <<>> for a free slot.
\* maxQueueSize (100 in the constructor), scaled down
MaxQueueSize == 2

FreeSlots == {f \in 1..MaxFlushes : inFlight[f] = <<>>}

\* logQueue.slice(-n)
SliceLast(q, n) == IF Len(q) <= n THEN q ELSE SubSeq(q, Len(q) - n + 1, Len(q))

\* logQueue.unshift(...logsToProcess)
Requeue(logsToProcess, queue) == logsToProcess \o queue

\* initialize, after the awaited simulateConnection: isConnected is set and
\* the timer is started
Connect ==
    /\ ~isConnected
    /\ isConnected' = TRUE
    /\ UNCHANGED <<now, verifierVars, creditVars, calls, proverVars,
                   logQueue, inFlight, delivered, logged>>

\* flushLogs up to its await, on the queue as it stands: the queue is copied
\* and emptied
FlushStart(queue) ==
    IF ~isConnected \/ Len(queue) = 0
    THEN /\ logQueue' = queue
         /\ UNCHANGED inFlight
    ELSE /\ FreeSlots # {}
         /\ LET f == CHOOSE x \in FreeSlots : \A y \in FreeSlots : x <= y
            IN  inFlight' = [inFlight EXCEPT ![f] = queue]
         /\ logQueue' = <<>>

\* log(entry): push, then flush when the queue has reached maxQueueSize
Log ==
    /\ logged < MaxEntries
    /\ logged' = logged + 1
    /\ LET queue == Append(logQueue, logged + 1)
       IN  IF Len(queue) >= MaxQueueSize
           THEN FlushStart(queue)
           ELSE /\ logQueue' = queue
                /\ UNCHANGED inFlight
    /\ UNCHANGED <<now, verifierVars, creditVars, calls, proverVars,
                   isConnected, delivered>>

\* the setInterval callback of startLogProcessing
TimerFlush ==
    /\ isConnected
    /\ logQueue # <<>>
    /\ FlushStart(logQueue)
    /\ UNCHANGED <<now, verifierVars, creditVars, calls, proverVars,
                   isConnected, delivered, logged>>

\* processLogsToHCS resolves: the entries are on the topic
FlushSucceeds(f) ==
    /\ inFlight[f] # <<>>
    /\ delivered' = delivered \o inFlight[f]
    /\ inFlight' = [inFlight EXCEPT ![f] = <<>>]
    /\ UNCHANGED <<now, verifierVars, creditVars, calls, proverVars,
                   isConnected, logQueue, logged>>

\* processLogsToHCS throws: the catch block of flushLogs
FlushFails(f) ==
    /\ inFlight[f] # <<>>
    /\ LET queue == Requeue(inFlight[f], logQueue)
       IN  logQueue' = IF Len(queue) > MaxQueueSize * 2
                           THEN SliceLast(queue, MaxQueueSize)
                       ELSE queue
    /\ inFlight' = [inFlight EXCEPT ![f] = <<>>]
    /\ UNCHANGED <<now, verifierVars, creditVars, calls, proverVars,
                   isConnected, delivered, logged>>

\* ------------------------------------------------------------------ Init
Init ==
    /\ now = 1
    /\ operators = {Owner}
    /\ verificationKeys = [k \in KeyNames |-> NoKey]
    /\ keyNames = <<>>
    /\ verificationResults = [x \in {} |-> ZeroResult]
    /\ batchVerificationResults = [x \in {} |-> ZeroBatchResult]
    /\ userVerificationHistory = [a \in Addresses |-> <<>>]
    /\ proofCounter = 0
    /\ lastProofId = ZeroId
    /\ zkVerificationKeys = [k \in CreditKeyNames |-> <<>>]
    /\ verifiedIdentities = [x \in {} |-> ZeroIdentity]
    /\ userCreditInfo = [u \in Subjects |-> ZeroCreditInfo]
    /\ lastCall = Outcome(0, "", "", FALSE, 0)
    /\ creditEvents = <<>>
    /\ rangeProof = NoRangeProof
    /\ circuit = NoCircuit
    /\ calls = [c \in 1..NumCalls |-> IdleCall]
    /\ isConnected = FALSE
    /\ logQueue = <<>>
    /\ inFlight = [f \in 1..MaxFlushes |-> <<>>]
    /\ delivered = <<>>
    /\ logged = 0

KeyAdmin ==
    \/ \E sender \in Addresses, keyName \in KeyNames, keyData \in KeyDatas,
          system \in InputSystems :
            AddVerificationKey(sender, keyName, keyData, system)
    \/ \E sender \in Addresses, keyName \in KeyNames, isActive \in BOOLEAN :
            UpdateVerificationKeyStatus(sender, keyName, isActive)
    \/ \E sender \in Addresses, keyName \in KeyNames :
            EmergencyDeactivateKey(sender, keyName)
    \/ \E sender \in Addresses, authorized \in BOOLEAN :
            SetOperator(sender, Operator, authorized)

Next ==
    \/ Tick
    \/ \E sender \in Addresses, proof \in Proofs,
          publicSignals \in SignalVectors, keyName \in KeyNames,
          system \in InputSystems :
            VerifyProof(sender, proof, publicSignals, keyName, system)
    \/ KeyAdmin

Spec == Init /\ [][Next]_vars

BatchProofs == GoodProofs \cup {<<>>}

NextBatch ==
    \/ \E sender \in Addresses,
          proofs \in SeqsUpTo(BatchProofs, MaxBatchLen),
          publicSignalsArray \in SeqsUpTo(SignalVectors, MaxBatchLen),
          keyName \in KeyNames, system \in InputSystems :
            VerifyBatchProofs(sender, proofs, publicSignalsArray, keyName,
                              system)
    \/ KeyAdmin

SpecBatch == Init /\ [][NextBatch]_vars

NextCredit ==
    \/ Tick
    \/ \E sender \in {"alice", "outsider"}, proofId \in ProofIds,
          proof \in CreditProofs, publicSignals \in CreditSignals,
          keyName \in CreditKeyNames, level \in LevelInputs :
            CreditVerifyProof(sender, proofId, proof, publicSignals, keyName,
                              level)
    \/ \E user \in Subjects, tier \in Tiers, incomeMin \in Incomes,
          incomeMax \in Incomes, level \in {0, PremiumLevel} :
            UpdateCreditAssessment(user, tier, incomeMin, incomeMax, level)
    \/ \E keyName \in CreditKeyNames, keyData \in CreditKeyDatas :
            SetVerificationKey(keyName, keyData)

SpecCredit == Init /\ [][NextCredit]_vars

NextService ==
    \/ Tick
    \/ \E c \in 1..NumCalls, proof \in SvcProofs,
          publicSignals \in SvcSignals, keyName \in SvcKeyNames :
            StartVerify(c, proof, publicSignals, keyName)
    \/ \E c \in 1..NumCalls, isValid \in BOOLEAN : CompleteVerify(c, isValid)

SpecService == Init /\ [][NextService]_vars

NextUpdate ==
    \/ Tick
    \/ \E user \in Subjects, tier \in Tiers, incomeMin \in Incomes,
          incomeMax \in Incomes, level \in {0, PremiumLevel} :
            UpdateCreditAssessment(user, tier, incomeMin, incomeMax, level)

SpecUpdate == Init /\ [][NextUpdate]_vars

NextProve ==
    \/ \E value \in SvcValues, min \in SvcValues, max \in SvcValues,
          proofId \in GeneratedUuids, proof \in GeneratedProofs :
            GenerateRangeProof(value, min, max, proofId, proof)
    \/ VerifyZKProof(1)
    \/ \E isValid \in BOOLEAN : CompleteVerify(1, isValid)

SpecProve == Init /\ [][NextProve]_vars

NextIncome ==
    \/ \E minIncome \in IncomeValues, maxIncome \in IncomeValues,
          actualIncome \in IncomeValues :
            RunIncomeVerifier(minIncome, maxIncome, actualIncome)
    \/ NewInstance

SpecIncome == Init /\ [][NextIncome]_vars

NextMerkle ==
    \/ \E levels \in 0..MaxLevels :
         \E index \in 0..(Pow2(levels) - 1), tamper \in Tampers(levels),
            isValid \in OutputCandidates :
              RunMerkleTreeVerifier(levels, index, tamper, isValid)
    \/ \E levels \in BatchLevels :
         \E tampers \in SeqsUpTo(BatchTampers(levels), MaxCircuitBatch),
            validityFlags \in SeqsUpTo(OutputCandidates, MaxCircuitBatch),
            allValid \in {0, 1} :
              RunBatchMerkleVerifier(levels, tampers, validityFlags, allValid)
    \/ NewInstance

SpecMerkle == Init /\ [][NextMerkle]_vars

NextCreditHistory ==
    \/ \E scoreMin \in ScoreMins, scoreMax \in ScoreMaxs,
          minHistLen \in MinHistoryLengths, score \in Scores,
          histLen \in HistoryLengths, defaults \in DefaultCounts,
          late \in LatePayments :
            RunCreditHistoryVerifier(scoreMin, scoreMax, minHistLen, score,
                                     histLen, defaults, late)
    \/ NewInstance

SpecCreditHistory == Init /\ [][NextCreditHistory]_vars

\* The owner registers keys, appoints the operator and deactivates keys in
\* an emergency; every other account calls whatever it likes.  The owner
\* re-registers no name and no call asks for a key to be switched off, so a
\* registered key is inactive only after emergencyDeactivateKey.
NextEmergency ==
    \/ Tick
    \/ \E keyName \in KeyNames, keyData \in KeyDatas, system \in InputSystems :
            /\ verificationKeys[keyName].keyName = ""
            /\ AddVerificationKey(Owner, keyName, keyData, system)
    \/ \E sender \in Addresses, authorized \in BOOLEAN :
            SetOperator(sender, Operator, authorized)
    \/ \E sender \in Addresses, keyName \in KeyNames :
            EmergencyDeactivateKey(sender, keyName)
    \/ \E sender \in Addresses \ {Owner}, keyName \in KeyNames,
          keyData \in KeyDatas, system \in InputSystems :
            AddVerificationKey(sender, keyName, keyData, system)
    \/ \E sender \in Addresses \ {Owner}, keyName \in KeyNames :
            UpdateVerificationKeyStatus(sender, keyName, TRUE)
    \/ \E sender \in Addresses, proof \in Proofs,
          publicSignals \in SignalVectors, keyName \in KeyNames,
          system \in InputSystems :
            VerifyProof(sender, proof, publicSignals, keyName, system)

SpecEmergency == Init /\ [][NextEmergency]_vars

NextLogger ==
    \/ Connect
    \/ Log
    \/ TimerFlush
    \/ \E f \in 1..MaxFlushes : FlushSucceeds(f)
    \/ \E f \in 1..MaxFlushes : FlushFails(f)

SpecLogger == Init /\ [][NextLogger]_vars

NextCollateralRequest ==
    \/ Tick
    \/ \E value \in CollateralInputValues,
          inputProof \in CollateralInputProofs,
          loanAmount \in CollateralInputLoans,
          proofId \in GeneratedUuids, proof \in GeneratedProofs :
            GenerateCollateralProof(value, inputProof, loanAmount, proofId,
                                    proof)
    \/ VerifyZKProof(1)
    \/ \E isValid \in BOOLEAN : CompleteVerify(1, isValid)

SpecCollateralRequest == Init /\ [][NextCollateralRequest]_vars

NextCollateral ==
    \/ \E requiredCollateralValue \in RequiredCollateralValues,
          collateralRatio \in CollateralRatios,
          minCollateralAge \in MinCollateralAges,
          actualCollateralValue \in ActualCollateralValues,
          collateralAge \in CollateralAges, loanAmount \in LoanAmounts,
          hasLiens \in Flags, ownershipVerified \in Flags,
          geographicRisk \in GeographicRisks,
          marketVolatility \in MarketVolatilities,
          quotient \in UndefinedQuotients, isOneOut \in Flags :
            RunCollateralVerifier(
                requiredCollateralValue, collateralRatio, minCollateralAge,
                actualCollateralValue, collateralAge, loanAmount, hasLiens,
                ownershipVerified, geographicRisk, marketVolatility,
                quotient, isOneOut)
    \/ NewInstance

SpecCollateral == Init /\ [][NextCollateral]_vars

\* ================================================================ claims
\* the (proof, publicSignals) part of a verification id's preimage
TupleOf(id) == <<id[1], id[2]>>
SignalsOf(id) == id[2]

AllReturnedIds ==
    UNION {{userVerificationHistory[a][i] :
                i \in DOMAIN userVerificationHistory[a]} : a \in Addresses}

\* C1: calling verify twice with an identical (circuitId, proof,
\* publicSignals) tuple returns the same VerificationRecord both times: any
\* two identifiers that verifyProof returned for the same tuple name the
\* same stored record.  (All calls that return use the one registered key
\* name, so equal (proof, publicSignals) means an identical tuple.)
C1_VerifyIdempotent ==
    \A i \in AllReturnedIds, j \in AllReturnedIds :
        TupleOf(i) = TupleOf(j) => ResultAt(i) = ResultAt(j)

\* C2: a subject's credit state is written only on the basis of a valid
\* proof: a written state (lastUpdated > 0) implies that some stored
\* verification record has isValid = true.
C2_UpdateOnlyAfterValidProof ==
    \A u \in Subjects :
        userCreditInfo[u].lastUpdated > 0 =>
            \E id \in DOMAIN verifiedIdentities :
                verifiedIdentities[id].isValid

\* C3: the verification-record store is append-only: a record, once
\* stored, is never modified, replaced or deleted by a later call.
C3_RecordsAppendOnly ==
    [][\A id \in DOMAIN verifiedIdentities :
           /\ id \in DOMAIN verifiedIdentities'
           /\ verifiedIdentities'[id] = verifiedIdentities[id]]_vars

\* C4: when a well-formed proof fails the cryptographic check, verify
\* stores a record with isValid = false under the key of the call.
C4_FailedProofStored ==
    (lastCall.err = "" /\ lastCall.checks = 1 /\ ~lastCall.ret) =>
        /\ lastCall.id \in DOMAIN verifiedIdentities
        /\ ~verifiedIdentities[lastCall.id].isValid

\* C5: verify on a circuitId whose verification key is absent fails and
\* performs no cryptographic check.
C5_UnknownCircuitRejected ==
    (lastCall.id # 0 /\ zkVerificationKeys[lastCall.key] = <<>>) =>
        (lastCall.err # "" /\ lastCall.checks = 0)

\* C6: isValid = false is reserved for a well-formed proof that fails the
\* cryptographic check: a public-signal vector that matches no circuit
\* descriptor (here the empty vector, which verifyBatchProofs itself
\* rejects) never results in a stored record with isValid = false.
C6_InvalidOnlyForWellFormed ==
    \A id \in DOMAIN verificationResults :
        ~verificationResults[id].isValid => Len(SignalsOf(id)) > 0

\* C7: an update writes only the fields of one circuit type: a step that
\* changes a subject's state leaves its tier (income circuit) or its income
\* range (credit circuit) unchanged.
C7_UpdateWritesOneFieldGroup ==
    [][\A u \in Subjects :
           userCreditInfo'[u] # userCreditInfo[u] =>
               \/ userCreditInfo'[u].creditScoreTier =
                      userCreditInfo[u].creditScoreTier
               \/ /\ userCreditInfo'[u].verifiedIncomeMin =
                         userCreditInfo[u].verifiedIncomeMin
                  /\ userCreditInfo'[u].verifiedIncomeMax =
                         userCreditInfo[u].verifiedIncomeMax]_vars

SameTuple(c, d) ==
    /\ calls[c].proof = calls[d].proof
    /\ calls[c].publicSignals = calls[d].publicSignals
    /\ calls[c].verificationKeyName = calls[d].verificationKeyName

ReturnedRecord(c) ==
    [verified |-> calls[c].verified, timestamp |-> calls[c].timestamp,
     verifierId |-> calls[c].verifierId]

\* C9: two concurrent verify calls with the identical tuple both receive
\* the same record (one computation, one insert).
C9_ConcurrentSameRecord ==
    \A c \in 1..NumCalls, d \in 1..NumCalls :
        (c # d /\ SameTuple(c, d) /\ calls[c].pc = "done"
              /\ calls[d].pc = "done") =>
            ReturnedRecord(c) = ReturnedRecord(d)

\* C10: when two computations for the same key disagree on isValid, one of
\* them fails with RecordConflict instead of both returning their result.
C10_ConflictDetected ==
    \A c \in 1..NumCalls, d \in 1..NumCalls :
        (c # d /\ SameTuple(c, d) /\ calls[c].verifierId # 0
              /\ calls[d].verifierId # 0
              /\ calls[c].verified # calls[d].verified) =>
            \E x \in {c, d} : /\ calls[x].pc = "failed"
                              /\ calls[x].error = "RecordConflict"

\* the CreditAssessmentUpdated events of subject u, in emission order
EventsOf(u) == SelectSeq(creditEvents, LAMBDA e : e.user = u)

\* the stored state carries the fields of update event e
MatchesEvent(info, e) ==
    /\ info.creditScoreTier = e.creditScoreTier
    /\ info.verifiedIncomeMin = e.incomeMin
    /\ info.verifiedIncomeMax = e.incomeMax
    /\ info.lastUpdated = e.blockTimestamp

\* C11: updates of one subject never leave a partly written or mixed state:
\* in every state the subject's record is either the zero record (nothing
\* applied yet) or carries the tier, income range and timestamp of one
\* single applied update, whatever the order in which updates were applied.
C11_UpdatesNotInterleaved ==
    \A u \in Subjects :
        IF EventsOf(u) = <<>> THEN userCreditInfo[u] = ZeroCreditInfo
        ELSE \E i \in DOMAIN EventsOf(u) :
                 MatchesEvent(userCreditInfo[u], EventsOf(u)[i])

\* C11 witness: two updates of alice in the same block that differ in tier
\* and in income range have both been applied
C11_Witness ==
    LET ev == EventsOf("alice")
    IN  /\ Len(ev) = 2
        /\ ev[1].blockTimestamp = ev[2].blockTimestamp
        /\ ev[1].creditScoreTier # ev[2].creditScoreTier
        /\ ev[1].incomeMax # ev[2].incomeMax

\* C12: there is one state per subject, and after any sequence of applied
\* updates it is the state of the latest one: it carries the fields and the
\* timestamp of the last applied update, and no applied update has a later
\* timestamp than that one.
C12_LastWriteWins ==
    \A u \in Subjects :
        EventsOf(u) # <<>> =>
            LET ev == EventsOf(u)
                last == ev[Len(ev)]
            IN  /\ MatchesEvent(userCreditInfo[u], last)
                /\ \A i \in DOMAIN ev :
                       ev[i].blockTimestamp <= last.blockTimestamp

\* C12 witness: alice was updated in block 1 and, with another tier, in a
\* later block
C12_Witness ==
    LET ev == EventsOf("alice")
    IN  /\ Len(ev) = 2
        /\ ev[1].blockTimestamp < ev[2].blockTimestamp
        /\ ev[1].creditScoreTier # ev[2].creditScoreTier
        /\ userCreditInfo["alice"].creditScoreTier = ev[2].creditScoreTier

\* the IncomeVerifier instance for the arguments of the latest
\* generateRangeProof call
RangeProofCircuit ==
    IncomeVerifier(rangeProof.inputs.min, rangeProof.inputs.max,
                   rangeProof.inputs.value)

\* C13: for private inputs that violate the IncomeVerifier constraints
\* (value below min, above max, min above max, or a negative value) proof
\* generation fails: no proof, proofId or public-signal vector is produced.
C13_UnsatisfiableInputsRejected ==
    (rangeProof.status # "none" /\ ~RangeProofCircuit.satisfiable) =>
        rangeProof.status = "failed"

\* C14: for private inputs that satisfy every constraint, proof generation
\* succeeds and every completed verification of the generated proof with
\* its public signals returns verified = true.
C14_GeneratedProofVerifies ==
    (rangeProof.status # "none" /\ RangeProofCircuit.satisfiable) =>
        /\ rangeProof.status = "generated"
        /\ \A c \in 1..NumCalls :
               (/\ calls[c].pc = "done"
                /\ calls[c].proof = rangeProof.proof.proof
                /\ calls[c].publicSignals = rangeProof.proof.publicSignals)
                   => calls[c].verified

\* C15: the public signals of a satisfied IncomeVerifier instance are
\* minIncome, maxIncome and a commitment, and the commitment is not the
\* plaintext actualIncome.
C15_IncomeNotInPublicSignals ==
    (circuit.template = "IncomeVerifier" /\ circuit.satisfiable) =>
        /\ {circuit.publicSignals[i] : i \in DOMAIN circuit.publicSignals} =
               {circuit.minIncome, circuit.maxIncome, circuit.commitment}
        /\ circuit.commitment # circuit.actualIncome

\* C16: a constructed path fed to MerkleTreeVerifier with the root of its
\* tree is accepted with isValid = 1 (the satisfying assignment is the one
\* with isValid = 1), and a path with one sibling hash changed or one
\* direction bit flipped is accepted only with isValid = 0.
C16_MerkleRoundTrip ==
    circuit.template = "MerkleTreeVerifier" =>
        /\ circuit.tamper[1] = "none" =>
               (circuit.result.satisfiable <=> circuit.result.isValid = 1)
        /\ circuit.tamper[1] \in {"sibling", "flip"} =>
               (circuit.result.satisfiable <=> circuit.result.isValid = 0)

\* C17: an assignment in which some pathIndices[i] is neither 0 nor 1 does
\* not satisfy MerkleTreeVerifier, whatever the value of isValid.
C17_PathIndicesBinary ==
    (circuit.template = "MerkleTreeVerifier"
         /\ circuit.tamper[1] = "nonbinary") =>
        ~circuit.result.satisfiable

\* C17 witness: a path with a direction of 2 whose isValid agrees with the
\* root comparison, so that only the binary check rejects it
C17_Witness ==
    /\ circuit.template = "MerkleTreeVerifier"
    /\ circuit.tamper[1] = "nonbinary"
    /\ circuit.result.isValid = 0
    /\ RootMatch(circuit.result.currentHash, TreeRoot(circuit.levels),
                 circuit.result.isValid)
    /\ ~circuit.result.satisfiable

\* proof i of the batch is an untouched constructed path
HonestProof(i) == circuit.tampers[i][1] = "none"

\* C18: BatchMerkleVerifier accepts exactly the assignment in which each
\* validity flag is 1 for a valid proof and 0 for an invalid one, and
\* allValid is 1 when every proof is valid and 0 otherwise.
C18_BatchAllValid ==
    circuit.template = "BatchMerkleVerifier" =>
        LET n == Len(circuit.tampers)
            intended ==
                /\ \A i \in 1..n :
                       circuit.result.validityFlags[i] =
                           (IF HonestProof(i) THEN 1 ELSE 0)
                /\ circuit.result.allValid =
                       (IF \A i \in 1..n : HonestProof(i) THEN 1 ELSE 0)
        IN  circuit.result.satisfiable <=> intended

\* C19: in a BatchMerkleVerifier assignment, every validity flag whose
\* sub-verifier is satisfied is 0 or 1: the sub-verifier's constraints on
\* its own output admit no other value.
C19_ValidityFlagsBoolean ==
    circuit.template = "BatchMerkleVerifier" =>
        \A i \in 1..Len(circuit.tampers) :
            circuit.result.verifiers[i].satisfiable =>
                circuit.result.validityFlags[i] \in {0, 1}

\* C19 witness: a batch in which one sub-verifier is satisfied and another
\* one is offered the flag value 2
C19_Witness ==
    /\ circuit.template = "BatchMerkleVerifier"
    /\ \E i \in 1..Len(circuit.tampers), j \in 1..Len(circuit.tampers) :
           /\ circuit.result.verifiers[i].satisfiable
           /\ circuit.result.validityFlags[j] = 2
           /\ ~circuit.result.verifiers[j].satisfiable

C21_RatingTruncates ==
    (circuit.template = "CreditHistoryVerifier" /\ circuit.satisfiable) =>
        /\ circuit.creditRating = (circuit.creditScore * 100) \div 850
        /\ circuit.creditRating \in 0..100

\* C22: a collateral proof request whose loanAmount is 0 is rejected with
\* WitnessUnsatisfiable: it never ends with a generated proof.
C22_ZeroLoanRejected ==
    (/\ rangeProof.status # "none"
     /\ rangeProof.inputs.loanAmount = 0) =>
        /\ rangeProof.status = "failed"
        /\ rangeProof.error = "WitnessUnsatisfiable"

\* C23: in every satisfied CollateralVerifier instance with a nonzero loan
\* amount, collateralStatus is the product of the six comparison results,
\* every check signal equals its comparison result, and the ratio of
\* actualCollateralValue * 100 to loanAmount is not below collateralRatio.
C23_StatusIsAndOfChecks ==
    (/\ circuit.template = "CollateralVerifier"
     /\ circuit.satisfiable
     /\ circuit.loanAmount # 0) =>
        /\ circuit.checks = circuit.comparisons
        /\ circuit.collateralStatus =
               circuit.comparisons[1] * circuit.comparisons[2]
                   * circuit.comparisons[3] * circuit.comparisons[4]
                   * circuit.comparisons[5] * circuit.comparisons[6]
        /\ circuit.collateralStatus = 1 =>
               circuit.actualCollateralValue * 100
                   >= circuit.collateralRatio * circuit.loanAmount

\* C24: in every satisfied CollateralVerifier instance with a nonzero loan
\* amount, collateralScore lies in 0..100.
C24_ScoreInRange ==
    (/\ circuit.template = "CollateralVerifier"
     /\ circuit.satisfiable
     /\ circuit.loanAmount # 0) =>
        circuit.collateralScore \in 0..100

\* C25: a registered verification key is created once and is immutable: no
\* step changes the key data, proof system, creation time or creator of a
\* key that is already in the registry.
C25_DescriptorImmutable ==
    [][\A k \in KeyNames :
           verificationKeys[k].keyName # "" =>
               /\ verificationKeys'[k].keyData = verificationKeys[k].keyData
               /\ verificationKeys'[k].system = verificationKeys[k].system
               /\ verificationKeys'[k].createdAt =
                      verificationKeys[k].createdAt
               /\ verificationKeys'[k].creator = verificationKeys[k].creator]_vars

C27_DeactivatedStaysInactive ==
    [][/\ \A k \in KeyNames :
              (verificationKeys[k].keyName # "" /\ ~verificationKeys[k].isActive)
                  => ~verificationKeys'[k].isActive
       /\ (\A k \in KeyNames : ~verificationKeys[k].isActive)
              => verificationResults' = verificationResults]_vars

C29_DecisionTotal ==
    \A u \in Subjects :
        userCreditInfo[u].lastUpdated > 0 =>
            LET info == userCreditInfo[u]
                decision == GetCreditDecision(u)
                approved == /\ info.creditScoreTier <= 3
                            /\ info.verifiedIncomeMax - info.verifiedIncomeMin
                                   > 1000
            IN  /\ decision.err = ""
                /\ decision.isApproved = approved
                /\ decision.maxAmount =
                       IF approved THEN 50000 * (6 - info.creditScoreTier)
                       ELSE 0
                /\ decision.interestRate =
                       IF approved THEN 300 + 200 * info.creditScoreTier
                       ELSE 0

\* C30: under every interleaving of log() calls, timer flushes,
\* size-triggered flushes and their failures, the log queue holds its
\* entries in the order they were logged, and no entry is delivered to HCS
\* more than once.
C30_QueueKeepsLogOrder ==
    /\ \A i \in 1..Len(logQueue) : \A j \in 1..Len(logQueue) :
           i < j => logQueue[i] < logQueue[j]
    /\ \A i \in 1..Len(delivered) : \A j \in 1..Len(delivered) :
           i # j => delivered[i] # delivered[j]

====
